---- MODULE Spec2Model ----
(***************************************************************************)
(* A model of quack (src/quack/quack.py): the profile executor _run_tasks, *)
(* the vendoring pass _fetch_modules, _clean_modules and the nested        *)
(* invocation _run_nested_quack.                                           *)
(*                                                                         *)
(* Python strings are sequences of one-character strings, so that find,    *)
(* rfind, replace and slicing are computed as Python computes them.        *)
(* The file system is modelled by what the program reads and writes: the   *)
(* vendored destination of every module, .gitignore, the .git directories  *)
(* of the nested projects and of the host, and the private checkout area.  *)
(* External calls (subprocess.Popen, GitPython) are the environment: their *)
(* outcome is chosen nondeterministically in the action that makes them.   *)
(***************************************************************************)
EXTENDS Integers, Sequences, FiniteSets, TLC

VARIABLES
    config,        \* the loaded YAML configuration: modules and gitignore
    remote,        \* what each module's clone holds at <modules>/<name>/<path>
    profile,       \* the selected profile: dependencies and tasks
    pc,            \* position of the run: "deps", "tasks", "fetch", "done", "aborted"
    err,           \* the exception that ended the run, "none" while it runs
    stats,         \* stats of _run_tasks
    depIdx,        \* dependency entries already iterated
    taskIdx,       \* tasks already completed
    modIdx,        \* modules already iterated in the running vendoring pass
    ignore_list,   \* ignore_list of the running vendoring pass
    dest,          \* vendored destination <name> of every module, in the project root
    gitignore,     \* lines of .gitignore (content split on newline), or NoFile
    gitDirs,       \* directories that hold a .git directory
    area,          \* whether the private area .quack/modules exists
    checkouts,     \* module names that have a checkout under .quack/modules
    gitModules,    \* module names that have submodule metadata under .git/modules
    destAt,        \* history: dest before the first task and after each completed task
    log            \* history: the entries and tasks taken up, the external effects
                   \* and the reports, in order

vars == <<config, remote, profile, pc, err, stats, depIdx, taskIdx, modIdx,
          ignore_list, dest, gitignore, gitDirs, area, checkouts, gitModules, destAt, log>>

-----------------------------------------------------------------------------
(* Bounds of the model. *)

MaxTasks == 2
MaxDeps == 2
MaxRef == 5

-----------------------------------------------------------------------------
(* Python string primitives on sequences of characters. *)

Min(a, b) == IF a < b THEN a ELSE b

\* s[i:j] for 0 <= i
Slice(s, i, j) ==
    IF i >= Min(j, Len(s)) THEN <<>> ELSE SubSeq(s, i + 1, Min(j, Len(s)))

\* s.startswith(sub, i)
StartsAt(s, sub, i) ==
    /\ i + Len(sub) <= Len(s)
    /\ SubSeq(s, i + 1, i + Len(sub)) = sub

\* s.find(sub): the lowest index where sub occurs, -1 if none
find(s, sub) ==
    LET hits == {i \in 0..Len(s) : StartsAt(s, sub, i)}
    IN  IF hits = {} THEN -1 ELSE CHOOSE i \in hits : \A j \in hits : i <= j

\* s.rfind(sub): the highest index where sub occurs, -1 if none
rfind(s, sub) ==
    LET hits == {i \in 0..Len(s) : StartsAt(s, sub, i)}
    IN  IF hits = {} THEN -1 ELSE CHOOSE i \in hits : \A j \in hits : i >= j

\* s.replace(old, new): every non-overlapping occurrence, left to right
RECURSIVE replace(_, _, _)
replace(s, old, new) ==
    IF s = <<>> THEN <<>>
    ELSE IF StartsAt(s, old, 0)
         THEN new \o replace(Slice(s, Len(old), Len(s)), old, new)
         ELSE <<Head(s)>> \o replace(Tail(s), old, new)

\* sep.join(parts)
RECURSIVE join(_, _)
join(sep, parts) ==
    IF parts = <<>> THEN <<>>
    ELSE IF Len(parts) = 1 THEN parts[1]
         ELSE parts[1] \o sep \o join(sep, Tail(parts))

-----------------------------------------------------------------------------
(* String literals used by the program and by the inputs. *)

S_modules == <<"m","o","d","u","l","e","s">>
S_modules_colon == S_modules \o <<":">>
S_quack == <<"q","u","a","c","k">>
S_quack_colon == S_quack \o <<":">>
S_cmd_colon == <<"c","m","d",":">>
S_dash == <<"-">>
S_p == <<"-","p">>
S_y == <<"-","y">>
S_git == <<".","g","i","t">>
S_sub == <<"s","u","b">>
S_build == <<"b","u","i","l","d">>

\* os.getcwd() of the run
getcwd == <<"/","w">>

-----------------------------------------------------------------------------
(* Values of the state. *)

\* None of Python; no string of characters equals it
None == <<"None">>

\* Python truthiness of an optional string
truthy(v) == v # None /\ v # <<>>

\* a file-system entry: nothing, a regular file, or a directory and the names in it
NoEntry == [kind |-> "none", content |-> {}]
File(c) == [kind |-> "file", content |-> c]
Dir(c) == [kind |-> "dir", content |-> c]

\* os.path.exists, os.path.isfile, os.path.isdir
exists(e) == e.kind # "none"
isfile(e) == e.kind = "file"
isdir(e) == e.kind = "dir"

\* an entry of the history log: an external effect or a report, with two strings
Ev(op, a, b) == [op |-> op, a |-> a, b |-> b]

\* outcomes of subprocess.Popen(...).wait(): exit status 0, a non-zero status, or
\* Popen raising OSError because the program cannot be started
PopenOutcomes == {"zero", "nonzero", "raise"}

Range(f) == {f[i] : i \in DOMAIN f}

-----------------------------------------------------------------------------
(* Module.from_config and the per-module decisions of _fetch_modules. *)

\* from_config: config['repository'] must be present, else the diagnostic of line
\* 55 is written and sys.exit(1) ends the process (the mutant accepts every entry)
MutFromConfigAlways(m) == TRUE

from_config_ok(m) == m.has_repository

S_no_repository == "Module does not specify a 'repository'"

\* line 140: the module is not the one asked for
filtered_out(specific_module, m) ==
    truthy(specific_module) /\ specific_module # m.name

\* line 142: both tag and hexsha are set (the mutant drops the check)
MutPolicyNever(m) == FALSE

policy_violation(m) == truthy(m.tag) /\ truthy(m.hexsha)

\* sub_module.hexsha: the revision the clone landed on
S_head == <<"h">>

\* lines 152-163: the checkout. The command of the tag branch is built from the
\* name `tag`, and that of the hexsha branch from the name `hexsha`; neither is a
\* local nor a global of the module, so evaluating the argument raises NameError
\* before _nice_call is entered.
checkout(m) ==
    IF truthy(m.tag) THEN [err |-> "NameError", target |-> None]
    ELSE IF truthy(m.hexsha) THEN [err |-> "NameError", target |-> None]
    ELSE [err |-> "none", target |-> S_head]

\* shutil.ignore_patterns('.git*') applied to the names of the copied tree
ignore_patterns(names) == {n \in names : ~StartsAt(n, S_git, 0)}

\* lines 165-178: materialize module m. d is the destination entry <name>, src is
\* the entry at from_path. The result is the destination afterwards, the exception
\* raised (shutil.copyfile of a directory or onto a directory, shutil.rmtree of a
\* regular file, shutil.copytree of a regular file) and whether a copy was made.
\* (One mutant removes the destination also when the module is skipped, the
\* other copies over the destination without removing it first.)
MutMaterializeRemovesFirst(m, d, src) ==
    IF (truthy(m.path) /\ exists(src)) \/ ~truthy(m.path)
    THEN IF m.isfile
         THEN LET d1 == IF isfile(d) THEN NoEntry ELSE d
              IN  IF ~isfile(src) \/ isdir(d1)
                  THEN [entry |-> d1, err |-> "IOError", copied |-> FALSE]
                  ELSE [entry |-> File(src.content), err |-> "none", copied |-> TRUE]
         ELSE IF isfile(d)
              THEN [entry |-> d, err |-> "OSError", copied |-> FALSE]
              ELSE IF ~isdir(src)
                   THEN [entry |-> NoEntry, err |-> "OSError", copied |-> FALSE]
                   ELSE [entry |-> Dir(ignore_patterns(src.content)),
                         err |-> "none", copied |-> TRUE]
    ELSE [entry |-> NoEntry, err |-> "none", copied |-> FALSE]

MutMaterializeMerge(m, d, src) ==
    IF (truthy(m.path) /\ exists(src)) \/ ~truthy(m.path)
    THEN IF m.isfile
         THEN [entry |-> File(src.content), err |-> "none", copied |-> TRUE]
         ELSE [entry |-> Dir(d.content \cup ignore_patterns(src.content)),
               err |-> "none", copied |-> TRUE]
    ELSE [entry |-> d, err |-> "none", copied |-> FALSE]

materialize(m, d, src) ==
    IF (truthy(m.path) /\ exists(src)) \/ ~truthy(m.path)
    THEN IF m.isfile
         THEN LET d1 == IF isfile(d) THEN NoEntry ELSE d
              IN  IF ~isfile(src) \/ isdir(d1)
                  THEN [entry |-> d1, err |-> "IOError", copied |-> FALSE]
                  ELSE [entry |-> File(src.content), err |-> "none", copied |-> TRUE]
         ELSE IF isfile(d)
              THEN [entry |-> d, err |-> "OSError", copied |-> FALSE]
              ELSE IF ~isdir(src)
                   THEN [entry |-> NoEntry, err |-> "OSError", copied |-> FALSE]
                   ELSE [entry |-> Dir(ignore_patterns(src.content)),
                         err |-> "none", copied |-> TRUE]
    ELSE [entry |-> d, err |-> "none", copied |-> FALSE]

-----------------------------------------------------------------------------
(* .gitignore. The file is its content split on newline: an empty file is one  *)
(* empty line, and writing '\n' + name adds one line.                          *)

NoFile == [exists |-> FALSE, lines |-> <<>>]
IgnoreFile(lines) == [exists |-> TRUE, lines |-> lines]

\* lines 135-137: the ignore list read at the start of the pass
read_ignore(cfg, file) ==
    IF cfg.gitignore /\ file.exists THEN Range(file.lines) ELSE {}

\* lines 188-192: open(.gitignore, 'a') and the guarded write (the mutant writes
\* the name without looking it up in the ignore list)
MutAppendAlways(cfg, file, il, name) ==
    IF cfg.gitignore
    THEN [file |-> IgnoreFile(Append(IF file.exists THEN file.lines ELSE << <<>> >>, name)),
          il |-> il \cup {name}]
    ELSE [file |-> file, il |-> il]

append_ignore(cfg, file, il, name) ==
    IF cfg.gitignore
    THEN LET opened == IF file.exists THEN file.lines ELSE << <<>> >>
         IN  IF name \notin il
             THEN [file |-> IgnoreFile(Append(opened, name)), il |-> il \cup {name}]
             ELSE [file |-> IgnoreFile(opened), il |-> il]
    ELSE [file |-> file, il |-> il]

-----------------------------------------------------------------------------
(* The run as a record, so that every piece of the code is an operator from   *)
(* the state before it to the state after it.                                 *)

Cur ==
    [pc |-> pc, err |-> err, stats |-> stats, depIdx |-> depIdx,
     taskIdx |-> taskIdx, modIdx |-> modIdx, ignore_list |-> ignore_list,
     dest |-> dest, gitignore |-> gitignore, gitDirs |-> gitDirs,
     area |-> area, checkouts |-> checkouts, gitModules |-> gitModules, destAt |-> destAt,
     log |-> log]

Becomes(s) ==
    /\ pc' = s.pc
    /\ err' = s.err
    /\ stats' = s.stats
    /\ depIdx' = s.depIdx
    /\ taskIdx' = s.taskIdx
    /\ modIdx' = s.modIdx
    /\ ignore_list' = s.ignore_list
    /\ dest' = s.dest
    /\ gitignore' = s.gitignore
    /\ gitDirs' = s.gitDirs
    /\ area' = s.area
    /\ checkouts' = s.checkouts
    /\ gitModules' = s.gitModules
    /\ destAt' = s.destAt
    /\ log' = s.log
    /\ UNCHANGED <<config, remote, profile>>

\* an uncaught exception or sys.exit(1): the process ends with a non-zero status
abort(s, e) == [s EXCEPT !.pc = "aborted", !.err = e]

report(s, ev) == [s EXCEPT !.log = Append(@, ev)]

S_zero == <<"0">>
S_one == <<"1">>

\* _nice_call, lines 106-122. On a non-zero status line 121 formats a string of
\* two conversions with the single value stderr: that raises TypeError before
\* sys.exit(1) is reached, and the uncaught exception ends the process.
nice_call(s, command, cwd, out) ==
    LET started == report(s, Ev("Popen", command, cwd))
    IN  CASE out = "raise" -> abort(started, "OSError")
          [] out = "nonzero" -> abort(report(started, Ev("exit", command, S_one)), "TypeError")
          [] OTHER -> report(started, Ev("exit", command, S_zero))

-----------------------------------------------------------------------------
(* _run_nested_quack, lines 204-226. *)

\* lines 209-213: the directory of the nested invocation
nested_module(quack) ==
    LET slash_index == rfind(quack, <<"/">>)
    IN  IF slash_index > 0 THEN Slice(quack, 0, slash_index) ELSE getcwd

\* lines 210-220: the argument list of the nested invocation (the mutant leaves
\* the config-file name at its default)
MutCommandNoYaml(quack) ==
    LET colon_index == find(quack, <<":">>)
    IN  <<S_quack>>
        \o (IF Len(quack) > colon_index + 1
            THEN <<S_p, Slice(quack, colon_index + 1, Len(quack))>> ELSE <<>>)

MutCommandYamlNeedsSlash(quack) ==
    LET slash_index == rfind(quack, <<"/">>)
        colon_index == find(quack, <<":">>)
    IN  <<S_quack>>
        \o (IF Len(quack) > colon_index + 1
            THEN <<S_p, Slice(quack, colon_index + 1, Len(quack))>> ELSE <<>>)
        \o (IF colon_index > 0 /\ slash_index >= 0
            THEN <<S_y, Slice(quack, slash_index + 1, colon_index)>> ELSE <<>>)

nested_command(quack) ==
    LET slash_index == rfind(quack, <<"/">>)
        colon_index == find(quack, <<":">>)
    IN  <<S_quack>>
        \o (IF Len(quack) > colon_index + 1
            THEN <<S_p, Slice(quack, colon_index + 1, Len(quack))>> ELSE <<>>)
        \o (IF colon_index > 0
            THEN <<S_y, Slice(quack, slash_index + 1, colon_index)>> ELSE <<>>)

\* shutil.rmtree(module + '/.git'); the host's .git holds .git/modules (the
\* mutant spares the .git of the directory the run started in)
MutRemoveGitNestedOnly(s, module) ==
    IF module = getcwd THEN s ELSE [s EXCEPT !.gitDirs = @ \ {module}]

remove_git(s, module) ==
    [s EXCEPT !.gitDirs = @ \ {module},
              !.gitModules = IF module = getcwd THEN {} ELSE @]

\* lines 206-226
run_nested_quack(s, dependency, out) ==
    IF dependency[1] # "quack" THEN s
    ELSE LET quack == dependency[2]
             module == nested_module(quack)
             command == join(<<" ">>, nested_command(quack))
             inited == report([s EXCEPT !.gitDirs = @ \cup {module}],
                              Ev("init", module, <<>>))
             called == nice_call(inited, command, module, out)
         IN  IF called.pc = "aborted" THEN called
             ELSE report(remove_git(called, module), Ev("rmgit", module, <<>>))

-----------------------------------------------------------------------------
(* _fetch_modules, lines 125-192, and _clean_modules, lines 195-201. *)

S_rm_gitmodules == <<"r","m"," ",".","g","i","t","m","o","d","u","l","e","s">>
S_git_rm_cached ==
    <<"g","i","t"," ","r","m"," ","-","-","q","u","i","e","t"," ",
      "-","-","c","a","c","h","e","d"," ",".","g","i","t","m","o","d","u","l","e","s">>

\* a task of the profile has run to its end: the loop of _run_tasks goes on with
\* the next task of the list (the mutant passes over one task)
MutTaskDoneSkips(s) ==
    [s EXCEPT !.pc = "tasks", !.taskIdx = @ + 2, !.destAt = Append(@, s.dest)]

task_done(s) ==
    [s EXCEPT !.pc = "tasks", !.taskIdx = @ + 1, !.destAt = Append(@, s.dest)]

\* _create_dir, lines 81-84: the directory is made when it does not exist, and is
\* left as it is when it does
create_dir(e) == IF ~e THEN TRUE ELSE e

\* lines 127-138: before the first module. _remove_dir('.git/modules/') removes the
\* submodule metadata; _create_dir('.quack/modules') creates the private area only
\* when it is missing, so what it holds stays; git.Repo('.') needs ./.git.
fetch_begin(s, cfg) ==
    IF cfg.modules = <<>>
    THEN task_done(report(s, Ev("No modules found.", <<>>, <<>>)))
    ELSE LET prepared == [s EXCEPT !.gitModules = {},
                                   !.area = create_dir(@),
                                   !.ignore_list = read_ignore(cfg, s.gitignore)]
         IN  IF getcwd \notin s.gitDirs
             THEN abort(prepared, "InvalidGitRepositoryError")
             ELSE [prepared EXCEPT !.pc = "fetch", !.modIdx = 0]

\* the loop of line 139 goes to its next module, or the pass returns
next_module(s, cfg) ==
    IF s.modIdx + 1 = Len(cfg.modules)
    THEN task_done([s EXCEPT !.modIdx = @ + 1])
    ELSE [s EXCEPT !.modIdx = @ + 1]

\* lines 180-192 for module m, checked out at target: the submodule is removed,
\* .gitmodules (when it is still a file) is removed by two commands, the module is
\* reported and its name is added to .gitignore
finish_module(s, cfg, m, target, env) ==
    LET removed == [s EXCEPT !.checkouts = @ \ {m.name}, !.gitModules = @ \ {m.name}]
        rm1 == IF env.present THEN nice_call(removed, S_rm_gitmodules, getcwd, env.o1)
               ELSE removed
        rm2 == IF env.present /\ rm1.pc # "aborted"
               THEN nice_call(rm1, S_git_rm_cached, getcwd, env.o2) ELSE rm1
    IN  IF rm2.pc = "aborted" THEN rm2
        ELSE LET reported == report(rm2, Ev("Cloned", m.name, target))
                 ig == append_ignore(cfg, reported.gitignore, reported.ignore_list, m.name)
             IN  next_module([reported EXCEPT !.gitignore = ig.file,
                                              !.ignore_list = ig.il], cfg)

\* what the environment does in one iteration of the vendoring loop: clone is the
\* outcome of repo.create_submodule, present tells whether .gitmodules is still a
\* file after sub_module.remove(), o1 and o2 are the outcomes of the two commands
\* that remove it (the second runs only after the first succeeded)
FetchEnv(clone, present, o1, o2) ==
    [clone |-> clone, present |-> present, o1 |-> o1, o2 |-> o2]

FetchOutcomes ==
    {FetchEnv("raise", FALSE, "zero", "zero"), FetchEnv("ok", FALSE, "zero", "zero")}
    \cup {FetchEnv("ok", TRUE, o, "zero") : o \in {"nonzero", "raise"}}
    \cup {FetchEnv("ok", TRUE, "zero", o) : o \in PopenOutcomes}

\* lines 139-192: one iteration of the loop over _iter_modules(config)
fetch_module(s, cfg, rem, specific, env) ==
    LET m == cfg.modules[s.modIdx + 1]
    IN  IF ~from_config_ok(m)
        THEN abort(report(s, Ev(S_no_repository, m.name, <<>>)), "SystemExit")
        ELSE IF filtered_out(specific, m) THEN next_module(s, cfg)
        ELSE IF policy_violation(m)
             THEN next_module(report(s, Ev("Cannot be both tag & hexsha.", m.name, <<>>)), cfg)
        ELSE IF env.clone = "raise"
             THEN abort(report(s, Ev("Cloning", m.name, <<>>)), "GitCommandError")
        ELSE LET cloned == report([s EXCEPT !.checkouts = @ \cup {m.name},
                                            !.gitModules = @ \cup {m.name}],
                                  Ev("Cloning", m.name, <<>>))
                 co == checkout(m)
                 mat == materialize(m, s.dest[m.name], rem[m.name])
                 placed == report([cloned EXCEPT !.dest[m.name] = mat.entry],
                                  Ev(IF mat.copied THEN "copy"
                                     ELSE IF mat.err = "none" THEN "Skipped" ELSE "copy failed",
                                     m.name, m.path))
             IN  IF co.err # "none" THEN abort(cloned, co.err)
                 ELSE IF mat.err # "none" THEN abort(placed, mat.err)
                 ELSE finish_module(placed, cfg, m, co.target, env)

\* _remove_dir on a destination entry: shutil.rmtree raises on a regular file
\* (the mutant reports the removal and leaves the directory)
MutRemoveDirKeeps(e) ==
    [entry |-> e, removed |-> exists(e), err |-> IF isfile(e) THEN "OSError" ELSE "none"]

remove_dir(e) ==
    IF ~exists(e) THEN [entry |-> e, removed |-> FALSE, err |-> "none"]
    ELSE IF isfile(e) THEN [entry |-> e, removed |-> FALSE, err |-> "OSError"]
    ELSE [entry |-> NoEntry, removed |-> TRUE, err |-> "none"]

\* lines 197-201 from the i-th module on
RECURSIVE clean_from(_, _, _, _)
clean_from(s, mods, specific, i) ==
    IF i > Len(mods) THEN s
    ELSE LET name == mods[i].name
             rd == remove_dir(s.dest[name])
         IN  IF truthy(specific) /\ specific # name
             THEN clean_from(s, mods, specific, i + 1)
             ELSE IF rd.err # "none" THEN abort(s, rd.err)
             ELSE IF rd.removed
                  THEN clean_from(report([s EXCEPT !.dest[name] = rd.entry],
                                         Ev("Cleaned", name, <<>>)),
                                  mods, specific, i + 1)
                  ELSE clean_from(s, mods, specific, i + 1)

\* _clean_modules: config.get('modules') is None when the configuration has no
\* modules, and None has no items()
clean_modules(s, cfg, specific) ==
    IF cfg.modules_none THEN abort(s, "AttributeError")
    ELSE clean_from(s, cfg.modules, specific, 1)

-----------------------------------------------------------------------------
(* _run_tasks, lines 229-263. *)

\* line 243
is_negate(task) == task[1] = "-"

\* lines 244-245
stripped(task) == IF is_negate(task) THEN Tail(task) ELSE task

\* lines 247-249
is_modules(command) == find(command, S_modules_colon) = 0 \/ command = S_modules
is_quack(command) == find(command, S_quack_colon) = 0
is_cmd(command) == find(command, S_cmd_colon) = 0

\* lines 246, 251-252: the module the task names, None for all modules
specific_module(command) ==
    IF is_modules(command) /\ command # S_modules
    THEN replace(command, S_modules_colon, <<>>) ELSE None

\* lines 234-236: one dependency entry (one mutant counts the entries that start
\* a nested invocation only, the other leaves the loop after the first entry)
MutDependencyCountsNested(s, dependency, out) ==
    LET n == run_nested_quack(report(s, Ev("dependency", dependency[2], <<dependency[1]>>)),
                              dependency, out)
    IN  IF n.pc = "aborted" THEN n
        ELSE [n EXCEPT !.depIdx = @ + 1,
                       !.stats.dependencies = IF dependency[1] = "quack" THEN @ + 1 ELSE @]

MutDependencySkipsRest(s, dependency, out) ==
    LET n == run_nested_quack(report(s, Ev("dependency", dependency[2], <<dependency[1]>>)),
                              dependency, out)
    IN  IF n.pc = "aborted" THEN n
        ELSE [n EXCEPT !.depIdx = Len(profile.dependencies.items),
                       !.stats.dependencies = @ + 1]

run_dependency(s, dependency, out) ==
    LET n == run_nested_quack(report(s, Ev("dependency", dependency[2], <<dependency[1]>>)),
                              dependency, out)
    IN  IF n.pc = "aborted" THEN n
        ELSE [n EXCEPT !.depIdx = @ + 1, !.stats.dependencies = @ + 1]

\* lines 251-257: the first dispatch of a task
dispatch(s, command, out) ==
    IF is_modules(command) /\ command # S_modules THEN s
    ELSE IF is_quack(command)
         THEN run_nested_quack(s, <<"quack", replace(command, S_quack_colon, <<>>)>>, out)
    ELSE IF is_cmd(command)
         THEN nice_call(s, replace(command, S_cmd_colon, <<>>), getcwd, out)
    ELSE s

\* lines 242-262: one task. command[0] of an empty task raises IndexError.
\* (The mutant starts the vendoring pass after every task that is not negated.)
MutRunTaskFetchesAlways(s, cfg, task, out) ==
    LET counted == report([s EXCEPT !.stats.tasks = @ + 1], Ev("task", task, <<>>))
    IN  IF task = <<>> THEN abort(counted, "IndexError")
        ELSE LET command == stripped(task)
                 first == dispatch(counted, command, out)
                 cleaned == clean_modules(first, cfg, specific_module(command))
             IN  IF first.pc = "aborted" THEN first
                 ELSE IF ~is_negate(task)
                      THEN fetch_begin(first, cfg)
                 ELSE IF is_modules(command) /\ is_negate(task)
                      THEN IF cleaned.pc = "aborted" THEN cleaned ELSE task_done(cleaned)
                 ELSE task_done(first)

run_task(s, cfg, task, out) ==
    LET counted == report([s EXCEPT !.stats.tasks = @ + 1], Ev("task", task, <<>>))
    IN  IF task = <<>> THEN abort(counted, "IndexError")
        ELSE LET command == stripped(task)
                 first == dispatch(counted, command, out)
                 cleaned == clean_modules(first, cfg, specific_module(command))
             IN  IF first.pc = "aborted" THEN first
                 ELSE IF is_modules(command) /\ ~is_negate(task)
                      THEN fetch_begin(first, cfg)
                 ELSE IF is_modules(command) /\ is_negate(task)
                      THEN IF cleaned.pc = "aborted" THEN cleaned ELSE task_done(cleaned)
                 ELSE task_done(first)

-----------------------------------------------------------------------------
(* The actions: the steps of one run of main(). *)

\* lines 233-236: the next dependency entry of the profile
RunDependency ==
    /\ pc = "deps"
    /\ profile.dependencies.is_dict
    /\ depIdx < Len(profile.dependencies.items)
    /\ \E out \in PopenOutcomes :
        Becomes(run_dependency(Cur, profile.dependencies.items[depIdx + 1], out))

\* lines 237-240: the dependencies are done; without tasks the statistics are returned
BeginTasks ==
    /\ pc = "deps"
    /\ ~profile.dependencies.is_dict \/ depIdx = Len(profile.dependencies.items)
    /\ Becomes(IF profile.tasks = <<>>
               THEN report([Cur EXCEPT !.pc = "done"], Ev("No tasks found.", <<>>, <<>>))
               ELSE [Cur EXCEPT !.pc = "tasks"])

\* lines 241-262: the next task of the profile
RunTask ==
    /\ pc = "tasks"
    /\ taskIdx < Len(profile.tasks)
    /\ \E out \in PopenOutcomes :
        Becomes(run_task(Cur, config, profile.tasks[taskIdx + 1], out))

\* lines 139-192: the next module of the vendoring pass of the current task
FetchModule ==
    /\ pc = "fetch"
    /\ \E env \in FetchOutcomes :
        Becomes(fetch_module(Cur, config, remote,
                             specific_module(stripped(profile.tasks[taskIdx + 1])), env))

\* line 263: every task has run, the statistics are returned to main
ReturnStats ==
    /\ pc = "tasks"
    /\ taskIdx = Len(profile.tasks)
    /\ Becomes([Cur EXCEPT !.pc = "done"])

Next == RunDependency \/ BeginTasks \/ RunTask \/ FetchModule \/ ReturnStats

-----------------------------------------------------------------------------
(* The inputs: configurations, what the remotes hold, profiles, and the project *)
(* tree the run starts in.                                                      *)

N_a == <<"a">>
N_b == <<"b">>
Names == {N_a, N_b}

\* one entry of config['modules']; branch goes to the clone only and is left out
Module(name, has_repository, path, hexsha, tag, is_file) ==
    [name |-> name, has_repository |-> has_repository, path |-> path,
     hexsha |-> hexsha, tag |-> tag, isfile |-> is_file]

Plain(name) == Module(name, TRUE, <<>>, None, None, FALSE)

Config(modules, modules_none, gi) ==
    [modules |-> modules, modules_none |-> modules_none, gitignore |-> gi]

\* names in a cloned tree, and in a destination left by an earlier run
SrcNames == {<<"f">>, S_git}
Stale == {<<"o">>}

S_tag == <<"t">>
S_hexsha == <<"c">>
S_path == <<"p">>

\* <<tag, hexsha>> of a module
Pins == {<<None, None>>, <<S_tag, None>>, <<None, S_hexsha>>, <<S_tag, S_hexsha>>}

\* path of a module and what the clone holds there; the root of a clone is a directory
PathCases ==
    {[path |-> <<>>, src |-> Dir(SrcNames)],
     [path |-> S_path, src |-> Dir(SrcNames)],
     [path |-> S_path, src |-> File({<<"f">>})],
     [path |-> S_path, src |-> NoEntry]}

\* every module description of the given name, with what its clone holds
Descriptions(name) ==
    {[module |-> Module(name, FALSE, <<>>, None, None, FALSE), src |-> Dir(SrcNames)]}
    \cup {[module |-> Module(name, TRUE, c.path, pin[2], pin[1], f), src |-> c.src] :
            pin \in Pins, f \in BOOLEAN, c \in PathCases}

\* the second module of a configuration: plain, or with conflicting pins
SecondDescriptions(name) ==
    {d \in Descriptions(name) :
        \/ d.module = Plain(name)
        \/ d.module = Module(name, TRUE, <<>>, S_hexsha, S_tag, FALSE)}

World(da, db, gi) ==
    [config |-> Config(<<da.module, db.module>>, FALSE, gi),
     remote |-> (N_a :> da.src) @@ (N_b :> db.src)]

PlainWorld(gi) ==
    World([module |-> Plain(N_a), src |-> Dir(SrcNames)],
          [module |-> Plain(N_b), src |-> Dir(SrcNames)], gi)

\* a configuration without modules (config.get('modules') is None)
EmptyWorld ==
    [config |-> Config(<<>>, TRUE, FALSE),
     remote |-> (N_a :> NoEntry) @@ (N_b :> NoEntry)]

\* task lists and dependency mappings (the keys of a mapping are distinct)
TaskLists(T) == UNION {[1..n -> T] : n \in 0..MaxTasks}

DepLists(E) ==
    {d \in UNION {[1..n -> E] : n \in 0..MaxDeps} :
        \A i, j \in DOMAIN d : i # j => d[i][1] # d[j][1]}

Dependencies(E) ==
    {[is_dict |-> FALSE, items |-> <<>>]}
    \cup {[is_dict |-> TRUE, items |-> d] : d \in DepLists(E)}

Profiles(E, T) ==
    {[dependencies |-> d, tasks |-> t] : d \in Dependencies(E), t \in TaskLists(T)}

\* references of nested invocations
R_sub_quack_build == S_sub \o <<"/">> \o S_quack \o <<":">> \o S_build
R_build == S_build
R_other == <<"r">>

\* task strings
T_modules == S_modules
T_neg_modules == S_dash \o S_modules
T_modules_a == S_modules_colon \o N_a
T_neg_modules_a == S_dash \o S_modules_colon \o N_a
T_modules_b == S_modules_colon \o N_b
T_modules_empty == S_modules_colon
T_cmd == S_cmd_colon \o <<"x">>
T_neg_cmd == S_dash \o S_cmd_colon \o <<"x">>
T_cmd_cmd == S_cmd_colon \o <<"e"," ">> \o S_cmd_colon
T_quack == S_quack_colon \o S_sub \o <<"/","q",":">> \o S_build
T_neg_quack == S_dash \o T_quack
T_inert == <<"x">>
T_empty == <<>>
T_dash == S_dash

\* the private area before the run: whether .quack/modules exists, the checkouts
\* in it and the submodule metadata under .git/modules
Area(e, c, g) == [exists |-> e, checkouts |-> c, gitModules |-> g]

\* a project in which no run was interrupted; main has made .quack only
FreshArea == Area(FALSE, {}, {})

\* the state in which _run_tasks is entered
InitOf(worlds, profiles, dests, files, areas) ==
    /\ \E w \in worlds : config = w.config /\ remote = w.remote
    /\ profile \in profiles
    /\ dest \in dests
    /\ gitignore \in files
    /\ pc = "deps"
    /\ err = "none"
    /\ stats = [tasks |-> 0, dependencies |-> 0]
    /\ depIdx = 0
    /\ taskIdx = 0
    /\ modIdx = 0
    /\ ignore_list = {}
    /\ gitDirs = {getcwd}
    /\ \E a \in areas :
         area = a.exists /\ checkouts = a.checkouts /\ gitModules = a.gitModules
    /\ destAt = <<dest>>
    /\ log = <<>>

-----------------------------------------------------------------------------
(* Spec: the profile executor over every kind of task and dependency, on a    *)
(* configuration of two plain modules or of none.                             *)

ExecDeps ==
    {<<"quack", R_sub_quack_build>>, <<"quack", R_build>>,
     <<"other", R_other>>, <<"more", R_other>>}

ExecTasks ==
    {T_modules, T_neg_modules, T_cmd, T_neg_cmd, T_cmd_cmd, T_quack, T_neg_quack,
     T_inert, T_empty, T_dash}

Init ==
    InitOf({PlainWorld(FALSE), EmptyWorld}, Profiles(ExecDeps, ExecTasks),
           {(N_a :> Dir(Stale)) @@ (N_b :> NoEntry)}, {NoFile}, {FreshArea})

Spec == Init /\ [][Next]_vars

(* SpecVendor: the vendoring pass and the cleaning over every description of  *)
(* the first module, on profiles of module tasks.                             *)

VendorTasks ==
    {T_modules, T_modules_a, T_neg_modules_a, T_modules_b, T_modules_empty}

InitVendor ==
    InitOf({World(da, db, FALSE) : da \in Descriptions(N_a), db \in SecondDescriptions(N_b)},
           {[dependencies |-> [is_dict |-> TRUE, items |-> << <<"other", R_other>> >>],
             tasks |-> t] : t \in TaskLists(VendorTasks)},
           {(N_a :> d) @@ (N_b :> Dir(Stale)) : d \in {NoEntry, Dir(Stale), File(Stale)}},
           {NoFile}, {FreshArea})

SpecVendor == InitVendor /\ [][Next]_vars

(* SpecIgnore: vendoring passes with gitignore enabled, started on every      *)
(* .gitignore an earlier run or the user can have left.                       *)

IgnoreTasks == {T_modules, T_modules_a, T_modules_b}

\* .gitignore before the run: absent, empty, or lines among which a module name
\* occurs at most once
IgnoreFiles ==
    {NoFile}
    \cup {IgnoreFile(l) : l \in {<< <<>> >>, << <<>>, N_a >>, << N_b, <<>> >>,
                                 << <<"x">>, N_a, N_b >>, << <<>>, N_b, <<>>, <<>> >>}}

InitIgnore ==
    InitOf({World(da, [module |-> Plain(N_b), src |-> Dir(SrcNames)], TRUE) :
              da \in {d \in Descriptions(N_a) :
                        d.module.has_repository /\ ~d.module.isfile
                        /\ ~truthy(d.module.hexsha)}},
           {[dependencies |-> [is_dict |-> TRUE, items |-> << <<"other", R_other>> >>],
             tasks |-> t] : t \in TaskLists(IgnoreTasks)},
           {(N_a :> NoEntry) @@ (N_b :> NoEntry)}, IgnoreFiles, {FreshArea})

SpecIgnore == InitIgnore /\ [][Next]_vars

(* SpecNested: the nested invocation over every reference of up to MaxRef     *)
(* characters among '/', ':' and a letter, given as a dependency entry and as *)
(* a "quack:" task, on the configuration of two plain modules.                *)

RefChars == {"/", ":", "q"}
Refs == UNION {[1..n -> RefChars] : n \in 0..MaxRef}

NestedProfiles ==
    {[dependencies |-> [is_dict |-> TRUE, items |-> << <<"quack", r>> >>],
      tasks |-> IF fetch THEN <<T_modules>> ELSE <<S_dash \o S_quack_colon \o r>>] :
        r \in Refs, fetch \in BOOLEAN}

InitNested ==
    InitOf({PlainWorld(FALSE)}, NestedProfiles,
           {(N_a :> NoEntry) @@ (N_b :> NoEntry)}, {NoFile}, {FreshArea})

SpecNested == InitNested /\ [][Next]_vars

(* SpecArea: vendoring passes in a project in which an earlier run may have    *)
(* been interrupted, leaving checkouts in the private area and submodule      *)
(* metadata under .git/modules.                                               *)

AreaTasks == {T_modules, T_modules_b}

\* an interrupted pass leaves the checkout of the module it was at, with or
\* without its metadata
Areas ==
    {FreshArea, Area(TRUE, {}, {})}
    \cup {Area(TRUE, {n}, IF meta THEN {n} ELSE {}) : n \in Names, meta \in BOOLEAN}

InitArea ==
    InitOf({PlainWorld(FALSE)},
           {[dependencies |-> [is_dict |-> TRUE, items |-> << <<"other", R_other>> >>],
             tasks |-> t] : t \in TaskLists(AreaTasks)},
           {(N_a :> NoEntry) @@ (N_b :> NoEntry)}, {NoFile}, Areas)

SpecArea == InitArea /\ [][Next]_vars

-----------------------------------------------------------------------------
(* The claims. *)

\* the text of a task after its leading "-"
CommandOf(task) == IF task # <<>> /\ task[1] = "-" THEN Tail(task) ELSE task

\* the <X> of a task "modules:<X>" or "-modules:<X>"
NamedBy(task) == Slice(CommandOf(task), Len(S_modules_colon), Len(CommandOf(task)))

IsFetchOf(task, X) == task = S_modules_colon \o X
IsCleanOf(task, X) == task = S_dash \o S_modules_colon \o X

Configured(X) == \E i \in DOMAIN config.modules : config.modules[i].name = X
ModuleNamed(X) == config.modules[CHOOSE i \in DOMAIN config.modules : config.modules[i].name = X]

\* the tasks that have run to their end
Completed == 1..(Len(destAt) - 1)

\* C1: when _run_tasks returns, stats.tasks is the number of task strings of the
\* profile and stats.dependencies is the number of its dependency entries,
\* whatever the tasks and the dependencies did.
C1_CountersExact ==
    pc = "done" =>
        /\ stats.tasks = Len(profile.tasks)
        /\ stats.dependencies = Len(profile.dependencies.items)

\* a returned run of two dependency entries, one of them not of kind quack, and
\* two tasks, one of them inert
C1_Witness ==
    /\ pc = "done"
    /\ Len(profile.dependencies.items) = 2
    /\ \E i \in 1..2 : profile.dependencies.items[i][1] = "other"
    /\ Len(profile.tasks) = 2
    /\ T_inert \in Range(profile.tasks)
    /\ stats = [tasks |-> 2, dependencies |-> 2]

\* C2: a completed task "modules:<X>" or "-modules:<X>" leaves the destination of
\* every module other than <X> as it was before the task.
C2_OnlyNamedModuleChanges ==
    \A i \in Completed :
        StartsAt(CommandOf(profile.tasks[i]), S_modules_colon, 0) =>
            \A n \in Names :
                n # NamedBy(profile.tasks[i]) => destAt[i + 1][n] = destAt[i][n]

\* C3: in a vendoring pass, the iteration of a module that has both tag and hexsha
\* set changes no destination, clones and copies nothing, runs no command, does
\* not abort, and the pass goes on with the next module (or returns after the
\* last one).
C3_PolicyViolationSkipped ==
    [][(/\ pc = "fetch"
        /\ config.modules[modIdx + 1].has_repository
        /\ truthy(config.modules[modIdx + 1].tag)
        /\ truthy(config.modules[modIdx + 1].hexsha))
       => (/\ dest' = dest
           /\ checkouts' = checkouts
           /\ gitignore' = gitignore
           /\ \A j \in DOMAIN log' :
                j > Len(log) => log'[j].op \notin {"Cloning", "copy", "Popen", "Cloned"}
           /\ pc' # "aborted"
           /\ modIdx' = modIdx + 1
           /\ pc' = IF modIdx + 1 < Len(config.modules) THEN "fetch" ELSE "tasks")]_vars

\* the first module, with both pins and asked for by the task, has been skipped
\* and the pass is at the second module
C3_Witness ==
    /\ pc = "fetch"
    /\ modIdx = 1
    /\ truthy(config.modules[1].tag) /\ truthy(config.modules[1].hexsha)
    /\ log[Len(log)] = Ev("Cannot be both tag & hexsha.", N_a, <<>>)

\* C4: when "modules:<X>" and "-modules:<X>" are successive tasks of the profile
\* and <X> is a module copied as a directory, <X> has no destination once the
\* second task has run.
C4_CleanReversesFetch ==
    \A X \in Names : \A i \in Completed :
        (/\ i + 1 \in Completed
         /\ IsFetchOf(profile.tasks[i], X)
         /\ IsCleanOf(profile.tasks[i + 1], X)
         /\ Configured(X)
         /\ ~ModuleNamed(X).isfile)
        => ~exists(destAt[i + 2][X])

\* module a was copied as a directory by the first task and removed by the second
C4_Witness ==
    /\ Len(destAt) = 3
    /\ profile.tasks = <<T_modules_a, T_neg_modules_a>>
    /\ destAt[2][N_a] = Dir({<<"f">>})
    /\ destAt[3][N_a] = NoEntry

\* the fetch task names module X, or names no module and so fetches every module
FetchTargets(task, X) == task \in {T_modules, T_modules_empty, S_modules_colon \o X}

\* tasks i and i+1 are the same fetch task of module X, and both have run
FetchedTwice(i, X) ==
    /\ i \in Completed /\ i + 1 \in Completed
    /\ profile.tasks[i] = profile.tasks[i + 1]
    /\ FetchTargets(profile.tasks[i], X)
    /\ Configured(X)

\* a pass materializes module X: it is not skipped for its two pins nor for a
\* source path that does not exist
Materialized(X) ==
    /\ ~(truthy(ModuleNamed(X).tag) /\ truthy(ModuleNamed(X).hexsha))
    /\ (ModuleNamed(X).path = <<>> \/ exists(remote[X]))

\* C5 as stated: after the same fetch task has run twice in a row, the destination
\* is what it was after the first run, and nothing that was in the destination
\* before the second run and is not in the source is left in it.
C5_FetchTwiceNoStale ==
    \A X \in Names : \A i \in Completed :
        FetchedTwice(i, X) =>
            /\ destAt[i + 2][X] = destAt[i + 1][X]
            /\ \A f \in destAt[i + 1][X].content :
                 f \notin remote[X].content => f \notin destAt[i + 2][X].content

\* C5 amended: after the same fetch task has run twice in a row, the destination
\* is what it was after the first run; and when the pass materializes the module
\* (it is not skipped), nothing that was in the destination before the second run
\* and is not in the source is left in it.
C5_FetchTwiceNoStaleWhenMaterialized ==
    \A X \in Names : \A i \in Completed :
        FetchedTwice(i, X) =>
            /\ destAt[i + 2][X] = destAt[i + 1][X]
            /\ Materialized(X) =>
                 \A f \in destAt[i][X].content \cup destAt[i + 1][X].content :
                     f \notin remote[X].content => f \notin destAt[i + 2][X].content

\* module a, whose destination held a stale name, was fetched twice as a directory
C5_Witness ==
    /\ profile.tasks = <<T_modules_a, T_modules_a>>
    /\ Len(destAt) = 3
    /\ destAt[1][N_a] = Dir(Stale)
    /\ destAt[2][N_a] = Dir({<<"f">>})
    /\ destAt[3][N_a] = Dir({<<"f">>})

\* C6: a task "cmd:<text>" runs the command <text> in the current directory, and
\* when the command exits with a non-zero status the process ends there: nothing
\* is done after it.
C6_CmdRunsItsText ==
    \A j \in DOMAIN log :
        (log[j].op = "task" /\ StartsAt(CommandOf(log[j].a), S_cmd_colon, 0)) =>
            LET text == Slice(CommandOf(log[j].a), Len(S_cmd_colon), Len(CommandOf(log[j].a)))
            IN  /\ j < Len(log)
                /\ log[j + 1] = Ev("Popen", text, getcwd)
                /\ (j + 2 <= Len(log) /\ log[j + 2] = Ev("exit", text, S_one))
                     => (pc = "aborted" /\ Len(log) = j + 2)

S_quack_p_build == S_quack \o <<" ">> \o S_p \o <<" ">> \o S_build
S_quack_p_build_y_quack == S_quack_p_build \o <<" ">> \o S_y \o <<" ">> \o S_quack

\* no nested invocation is started in dir after position j of the log
NoLaterInit(j, dir) == \A k \in DOMAIN log : k > j => log[k] # Ev("init", dir, <<>>)

S_checkout == <<"g","i","t"," ","c","h","e","c","k","o","u","t"," ","-","-","q","u","i","e","t"," ">>
S_tags == <<"t","a","g","s","/">>
S_area == <<".","q","u","a","c","k","/","m","o","d","u","l","e","s","/">>

\* C8: once a module is cloned, its own tag (as tags/<tag>) or else its own hexsha
\* is checked out in its checkout directory, and the target reported for it is its
\* tag, else its hexsha, else the revision of the clone.
C8_CheckoutOfOwnPin ==
    \A j \in DOMAIN log :
        (log[j].op = "Cloning" /\ ~(j = Len(log) /\ err = "GitCommandError")) =>
            LET m == ModuleNamed(log[j].a)
                target == IF truthy(m.tag) THEN m.tag
                          ELSE IF truthy(m.hexsha) THEN m.hexsha ELSE S_head
            IN  /\ truthy(m.tag) =>
                     /\ j < Len(log)
                     /\ log[j + 1] = Ev("Popen", S_checkout \o S_tags \o m.tag, S_area \o m.name)
                /\ (~truthy(m.tag) /\ truthy(m.hexsha)) =>
                     /\ j < Len(log)
                     /\ log[j + 1] = Ev("Popen", S_checkout \o m.hexsha, S_area \o m.name)
                /\ \A k \in DOMAIN log :
                     (k > j /\ log[k].op = "Cloned" /\ log[k].a = m.name) => log[k].b = target

\* C9: once the run has ended, no nested project directory (a directory other
\* than the one the run started in) in which a nested invocation's process has
\* exited, with whatever status, holds a .git directory.
C9_NoGitAfterNestedExit ==
    pc \in {"done", "aborted"} =>
        \A j \in DOMAIN log :
            (/\ j >= 3
             /\ log[j].op = "exit"
             /\ log[j - 2].op = "init"
             /\ log[j - 2].a # getcwd
             /\ log[j - 1].op = "Popen" /\ log[j - 1].b = log[j - 2].a)
            => log[j - 2].a \notin gitDirs

\* how often name is a line of the file
Occurrences(lines, name) == Cardinality({i \in DOMAIN lines : lines[i] = name})

\* C10: with gitignore enabled, every module name is a line of .gitignore at most
\* once, whatever passes have run and whatever the file held before the run.
C10_IgnoreNamesOnce ==
    config.gitignore =>
        \A n \in Names : Occurrences(gitignore.lines, n) <= 1

\* two passes over both modules have run, and each name is in the file once
C10_Witness ==
    /\ pc = "done"
    /\ profile.tasks = <<T_modules, T_modules>>
    /\ config.gitignore
    /\ \A n \in Names : Occurrences(gitignore.lines, n) = 1

\* C11: when a vendoring pass reaches a module entry without a repository, the
\* process ends there with a non-zero status (sys.exit(1)) after the diagnostic:
\* in that step no destination changes, nothing is cloned or copied and no command
\* runs; and an ended process takes no further step, so no later module is
\* fetched either.
C11_MissingRepositoryFatal ==
    [][/\ pc # "aborted"
       /\ (pc = "fetch" /\ ~config.modules[modIdx + 1].has_repository)
            => (/\ pc' = "aborted"
                /\ err' = "SystemExit"
                /\ log' = Append(log, Ev(S_no_repository, config.modules[modIdx + 1].name, <<>>))
                /\ dest' = dest
                /\ checkouts' = checkouts
                /\ gitignore' = gitignore
                /\ modIdx' = modIdx)]_vars

\* the pass over both modules ended at module a, which has no repository, and
\* module b after it was not fetched: its destination is as it was
C11_Witness ==
    /\ pc = "aborted"
    /\ err = "SystemExit"
    /\ profile.tasks[taskIdx + 1] = T_modules
    /\ modIdx = 0
    /\ ~config.modules[1].has_repository
    /\ config.modules[2] = Plain(N_b)
    /\ dest = destAt[1]
    /\ checkouts = {}
    /\ \A j \in DOMAIN log : log[j].op \notin {"Cloning", "copy", "Cloned"}

\* the tasks taken up so far, in the order in which they were taken up
TaskMarks == SelectSeq(log, LAMBDA e : e.op = "task")

\* the task during which entry j of the log was written: the number of tasks taken
\* up until then, 0 before the first task
Owner(j) == Cardinality({k \in 1..j : log[k].op = "task"})

IsFetchTask(task) ==
    /\ task # <<>> /\ task[1] # "-"
    /\ (task = S_modules \/ StartsAt(task, S_modules_colon, 0))

IsCleanTask(task) ==
    /\ task # <<>> /\ task[1] = "-"
    /\ (Tail(task) = S_modules \/ StartsAt(Tail(task), S_modules_colon, 0))

IsQuackTask(task) == StartsAt(CommandOf(task), S_quack_colon, 0)
IsCmdTask(task) == StartsAt(CommandOf(task), S_cmd_colon, 0)

FetchOps ==
    {"Cloning", "copy", "Skipped", "copy failed", "Cloned", "No modules found.",
     "Cannot be both tag & hexsha.", S_no_repository}

\* entry e of the log is an effect or a report that task has
EffectOf(e, task) ==
    CASE e.op = "task" -> e.a = task
      [] e.op \in FetchOps -> IsFetchTask(task)
      [] e.op = "Cleaned" -> IsCleanTask(task)
      [] e.op \in {"init", "rmgit"} -> IsQuackTask(task)
      [] e.op \in {"Popen", "exit"} ->
            \/ IsQuackTask(task)
            \/ IsCmdTask(task)
            \/ IsFetchTask(task) /\ e.a \in {S_rm_gitmodules, S_git_rm_cached}
      [] OTHER -> FALSE

\* C12: the tasks are taken up one at a time in the order of the list, each once:
\* the tasks taken up are a prefix of the list, a task is taken up only when every
\* task before it has run to its end, every effect written after a task was taken
\* up and before the next one is an effect of that task, and a run that returns
\* has taken up every task.
C12_TasksInListOrder ==
    /\ Len(TaskMarks) <= Len(profile.tasks)
    /\ \A i \in DOMAIN TaskMarks : TaskMarks[i].a = profile.tasks[i]
    /\ Len(TaskMarks) \in {taskIdx, taskIdx + 1}
    /\ taskIdx = Len(destAt) - 1
    /\ pc = "tasks" => Len(TaskMarks) = taskIdx
    /\ pc = "fetch" => Len(TaskMarks) = taskIdx + 1
    /\ pc = "done" => Len(TaskMarks) = Len(profile.tasks)
    /\ \A j \in DOMAIN log :
         Owner(j) >= 1 => EffectOf(log[j], profile.tasks[Owner(j)])

\* a run of a command task and then a fetch task has returned: the command exited
\* before the first module was cloned
C12_Witness ==
    /\ pc = "done"
    /\ profile.tasks = <<T_cmd, T_modules>>
    /\ \E j, k \in DOMAIN log :
         /\ j < k
         /\ log[j] = Ev("exit", <<"x">>, S_zero)
         /\ log[k] = Ev("Cloning", N_a, <<>>)

\* entry j of the log takes up a nested invocation: a dependency entry of kind
\* quack, or a "quack:" task. The entries after it are the init of the target
\* directory and the start of the nested process.
StartsNested(j) ==
    \/ log[j].op = "dependency" /\ log[j].b = <<"quack">>
    \/ log[j].op = "task" /\ IsQuackTask(log[j].a)

\* the reference of the nested invocation taken up at entry j
RefAt(j) ==
    IF log[j].op = "dependency" THEN log[j].a
    ELSE Slice(CommandOf(log[j].a), Len(S_quack_colon), Len(CommandOf(log[j].a)))

\* the command line and the directory of the nested process taken up at entry j
NestedCommandAt(j) == log[j + 2].a
NestedDirAt(j) == log[j + 2].b

HasChar(r, c) == \E i \in DOMAIN r : r[i] = c

\* the command line passes -y, and the value it passes (-y is the last argument;
\* no reference of the model holds a blank or a dash)
S_blank_y_blank == <<" ">> \o S_y \o <<" ">>
PassesYaml(cmd) == find(cmd, S_blank_y_blank) >= 0
YamlValue(cmd) == Slice(cmd, find(cmd, S_blank_y_blank) + Len(S_blank_y_blank), Len(cmd))

\* C13 as stated: -y is passed exactly when the reference holds both a '/' and
\* a ':', and its value is the text between the last '/' and the first ':'.
C13_YamlWhenSlashAndColon ==
    \A j \in DOMAIN log :
        StartsNested(j) =>
            LET r == RefAt(j)
                cmd == NestedCommandAt(j)
            IN  /\ PassesYaml(cmd) <=> (HasChar(r, "/") /\ HasChar(r, ":"))
                /\ PassesYaml(cmd) =>
                     YamlValue(cmd) = Slice(r, rfind(r, <<"/">>) + 1, find(r, <<":">>))

\* C13 amended: -y is passed exactly when the reference holds a ':' that is not
\* its first character, with or without a '/'; its value is the text from after
\* the last '/' (from the start of the reference when it has no '/') up to the
\* first ':', which is empty when the first ':' comes before the last '/'.
C13_YamlWhenColonNotFirst ==
    \A j \in DOMAIN log :
        StartsNested(j) =>
            LET r == RefAt(j)
                cmd == NestedCommandAt(j)
                first_colon == CHOOSE i \in DOMAIN r : r[i] = ":" /\ \A k \in 1..(i - 1) : r[k] # ":"
                after_slash == IF HasChar(r, "/")
                               THEN (CHOOSE i \in DOMAIN r : r[i] = "/" /\ \A k \in (i + 1)..Len(r) : r[k] # "/") + 1
                               ELSE 1
            IN  /\ PassesYaml(cmd) <=> (HasChar(r, ":") /\ r[1] # ":")
                /\ PassesYaml(cmd) =>
                     YamlValue(cmd) = IF first_colon < after_slash THEN <<>>
                                      ELSE SubSeq(r, after_slash, first_colon - 1)

\* a nested invocation was started by a dependency entry and by a negated task
\* for the reference qq:q, which has no '/': each passes -y with the text qq
C13_Witness ==
    /\ Len(log) >= 3
    /\ StartsNested(1)
    /\ RefAt(1) = <<"q", "q", ":", "q">>
    /\ YamlValue(NestedCommandAt(1)) = <<"q", "q">>
    /\ \E j \in DOMAIN log :
         /\ j > 1 /\ log[j].op = "task" /\ StartsNested(j)
         /\ RefAt(j) = <<"q", "q", ":", "q">>
         /\ PassesYaml(NestedCommandAt(j))
         /\ YamlValue(NestedCommandAt(j)) = <<"q", "q">>

\* the profile the command line passes with -p, empty when it passes none
S_blank_p_blank == <<" ">> \o S_p \o <<" ">>
ProfileArg(cmd) ==
    LET at == find(cmd, S_blank_p_blank)
        rest == Slice(cmd, at + Len(S_blank_p_blank), Len(cmd))
        stop == find(rest, <<" ">>)
    IN  IF at < 0 THEN <<>>
        ELSE IF stop < 0 THEN rest ELSE Slice(rest, 0, stop)

\* the text of r before its last '/', and the remainder after it (r itself when
\* it has no '/')
BeforeLastSlash(r) == Slice(r, 0, rfind(r, <<"/">>))
Remainder(r) == IF HasChar(r, "/") THEN Slice(r, rfind(r, <<"/">>) + 1, Len(r)) ELSE r

\* C14: when the reference holds a '/', the nested process runs in the directory
\* named by the text before the last '/' (the current directory when that text is
\* empty); the profile passed is the text after the first ':' of the remainder
\* when the remainder holds a ':', and the whole reference when the reference
\* holds no ':'. (An empty profile is taken as passed when -p is left out.)
C14_DirectoryAndProfile ==
    \A j \in DOMAIN log :
        StartsNested(j) =>
            LET r == RefAt(j)
                cmd == NestedCommandAt(j)
                rem == Remainder(r)
            IN  /\ HasChar(r, "/") =>
                     NestedDirAt(j) = IF BeforeLastSlash(r) = <<>> THEN getcwd
                                      ELSE BeforeLastSlash(r)
                /\ HasChar(rem, ":") =>
                     ProfileArg(cmd) = Slice(rem, find(rem, <<":">>) + 1, Len(rem))
                /\ ~HasChar(r, ":") => ProfileArg(cmd) = r

\* the modules a modules task selects: the one it names, every module when it
\* names none
Selects(task, n) ==
    \/ CommandOf(task) = S_modules
    \/ NamedBy(task) = <<>>
    \/ NamedBy(task) = n

\* the destinations before task k was taken up and now (after it, once another
\* task has been taken up)
DestBefore(k) == destAt[k]
DestAfter(k) == IF k + 1 <= Len(destAt) THEN destAt[k + 1] ELSE dest

\* C15: a "quack:" or "cmd:" task, negated or not, starts its nested invocation
\* or its command only: nothing is fetched or cleaned during it and no destination
\* changes; two such tasks that differ in the leading "-" only start the same
\* process in the same directory. A modules task enters the vendoring pass (the
\* cleaning when negated) over the modules it selects and starts no nested
\* invocation and no command other than those of the pass itself.
C15_ClassificationExclusive ==
    /\ \A j \in DOMAIN log :
         Owner(j) >= 1 =>
            LET task == profile.tasks[Owner(j)]
            IN  /\ IsQuackTask(task) => log[j].op \in {"task", "init", "Popen", "exit", "rmgit"}
                /\ IsCmdTask(task) => log[j].op \in {"task", "Popen", "exit"}
                /\ IsFetchTask(task) =>
                     \/ log[j].op \in FetchOps \cup {"task"}
                     \/ /\ log[j].op \in {"Popen", "exit"}
                        /\ log[j].a \in {S_rm_gitmodules, S_git_rm_cached}
                /\ IsCleanTask(task) => log[j].op \in {"task", "Cleaned"}
    /\ \A k \in 1..Len(TaskMarks) :
         LET task == profile.tasks[k]
         IN  /\ (IsQuackTask(task) \/ IsCmdTask(task)) => DestAfter(k) = DestBefore(k)
             /\ (IsFetchTask(task) /\ k \in Completed) =>
                  \/ config.modules = <<>>
                     /\ \E j \in DOMAIN log : Owner(j) = k /\ log[j].op = "No modules found."
                  \/ config.modules # <<>>
                     /\ \A n \in Names : Selects(task, n) =>
                           \E j \in DOMAIN log : Owner(j) = k /\ log[j] = Ev("Cloning", n, <<>>)
             /\ (IsCleanTask(task) /\ k \in Completed) =>
                  \A n \in Names : Selects(task, n) => ~exists(DestAfter(k)[n])
    /\ pc = "fetch" => IsFetchTask(profile.tasks[taskIdx + 1])
    /\ \A j, k \in DOMAIN log :
         (/\ log[j].op = "task" /\ log[k].op = "task"
          /\ IsQuackTask(log[j].a) \/ IsCmdTask(log[j].a)
          /\ CommandOf(log[j].a) = CommandOf(log[k].a))
         => /\ log[j + 1] = log[k + 1]
            /\ IsQuackTask(log[j].a) => log[j + 2] = log[k + 2]

\* a run of "quack:sub/q:build" and then "-quack:sub/q:build" has returned: both
\* started the same nested process in sub, and no destination changed
C15_Witness ==
    /\ pc = "done"
    /\ profile.tasks = <<T_quack, T_neg_quack>>
    /\ Len(destAt) = 3
    /\ destAt[3] = destAt[1]
    /\ \E j, k \in DOMAIN log :
         /\ j < k
         /\ log[j] = Ev("task", T_quack, <<>>)
         /\ log[k] = Ev("task", T_neg_quack, <<>>)
         /\ log[j + 2].op = "Popen" /\ log[j + 2].b = S_sub
         /\ log[k + 2] = log[j + 2]

\* the task matches none of the prefixes once its leading "-" is stripped
Inert(task) ==
    LET c == CommandOf(task)
    IN  /\ c # S_modules
        /\ ~StartsAt(c, S_modules_colon, 0)
        /\ ~StartsAt(c, S_quack_colon, 0)
        /\ ~StartsAt(c, S_cmd_colon, 0)

\* C16: the step that takes up a task matching none of the prefixes counts it,
\* writes nothing but that it was taken up, changes no part of the project tree,
\* does not end the run, and leaves the run at the next task.
C16_InertTaskOnlyCounted ==
    [][(/\ pc = "tasks"
        /\ taskIdx < Len(profile.tasks)
        /\ Inert(profile.tasks[taskIdx + 1]))
       => (/\ stats' = [stats EXCEPT !.tasks = @ + 1]
           /\ log' = Append(log, Ev("task", profile.tasks[taskIdx + 1], <<>>))
           /\ UNCHANGED <<dest, gitignore, gitDirs, checkouts, gitModules>>
           /\ err' = "none"
           /\ pc' = "tasks"
           /\ taskIdx' = taskIdx + 1)]_vars

\* C17: when a module has been cloned and checked out and its source path does
\* not exist in the clone, the step writes the diagnostic, copies nothing and
\* leaves every destination as it was; the run ends in that step only when one of
\* the two commands that remove .gitmodules fails, and otherwise the module is
\* reported and the pass is at the next module (or has returned after the last).
C17_MissingPathSkipped ==
    [][(/\ pc = "fetch"
        /\ truthy(config.modules[modIdx + 1].path)
        /\ ~exists(remote[config.modules[modIdx + 1].name])
        /\ Len(log') > Len(log)
        /\ log'[Len(log) + 1] = Ev("Cloning", config.modules[modIdx + 1].name, <<>>)
        /\ err' \notin {"GitCommandError", "NameError"})
       => LET m == config.modules[modIdx + 1]
              last == log'[Len(log')]
          IN  /\ dest' = dest
              /\ log'[Len(log) + 2] = Ev("Skipped", m.name, m.path)
              /\ \A j \in DOMAIN log' : j > Len(log) => log'[j].op \notin {"copy", "copy failed"}
              /\ pc' = "aborted" =>
                   /\ last.op \in {"Popen", "exit"}
                   /\ last.a \in {S_rm_gitmodules, S_git_rm_cached}
              /\ pc' # "aborted" =>
                   /\ last = Ev("Cloned", m.name, S_head)
                   /\ modIdx' = modIdx + 1
                   /\ pc' = IF modIdx + 1 < Len(config.modules) THEN "fetch" ELSE "tasks"]_vars

\* module a, whose path is not in its clone, was skipped with its stale
\* destination left as it was, and the pass is at module b
C17_Witness ==
    /\ pc = "fetch"
    /\ modIdx = 1
    /\ truthy(config.modules[1].path)
    /\ ~exists(remote[N_a])
    /\ dest[N_a] = Dir(Stale)
    /\ \E j \in DOMAIN log :
         /\ j < Len(log)
         /\ log[j] = Ev("Skipped", N_a, S_path)
         /\ log[Len(log)] = Ev("Cloned", N_a, S_head)

\* C18: when the first module of a vendoring pass is about to be fetched, the
\* private area exists and holds no checkout.
C18_AreaFreshAtFirstModule ==
    (pc = "fetch" /\ modIdx = 0) => (area /\ checkouts = {})

\* the dependency entries taken up so far, in the order in which they were
DependencyMarks == SelectSeq(log, LAMBDA e : e.op = "dependency")

\* the loop over the dependencies is over: the run is at its tasks or has returned,
\* or it ended during a task
DependenciesOver == pc \in {"tasks", "fetch", "done"} \/ TaskMarks # <<>>

\* C19: once a task has been taken up, every dependency entry of the mapping has
\* been taken up, in the order of the mapping, before it, and each nested
\* invocation of an entry of kind quack has run to its end: its process exited
\* with status zero and the .git of its directory was removed, before the task;
\* and no destination changes while the dependencies are processed.
C19_DependenciesBeforeTasks ==
    /\ \A j, k \in DOMAIN log :
         (log[j].op = "dependency" /\ log[k].op = "task") => j < k
    /\ pc = "deps" => (dest = destAt[1] /\ Len(destAt) = 1 /\ stats.tasks = 0)
    /\ (DependenciesOver /\ profile.dependencies.is_dict) =>
         /\ Len(DependencyMarks) = Len(profile.dependencies.items)
         /\ \A i \in DOMAIN DependencyMarks :
              /\ DependencyMarks[i].a = profile.dependencies.items[i][2]
              /\ DependencyMarks[i].b = <<profile.dependencies.items[i][1]>>
         /\ \A j \in DOMAIN log :
              (log[j].op = "dependency" /\ log[j].b = <<"quack">>) =>
                 /\ log[j + 1].op = "init"
                 /\ log[j + 2].op = "Popen" /\ log[j + 2].b = log[j + 1].a
                 /\ log[j + 3] = Ev("exit", log[j + 2].a, S_zero)
                 /\ log[j + 4] = Ev("rmgit", log[j + 1].a, <<>>)
    /\ ~profile.dependencies.is_dict => DependencyMarks = <<>>

\* both dependency entries were processed, the nested invocation of the second
\* one in sub ended, and then the first task started its command
C19_Witness ==
    /\ profile.dependencies.items = << <<"other", R_other>>, <<"quack", R_sub_quack_build>> >>
    /\ profile.tasks = <<T_cmd>>
    /\ Len(log) >= 8
    /\ log[1].op = "dependency"
    /\ log[2].op = "dependency"
    /\ log[6] = Ev("rmgit", S_sub, <<>>)
    /\ log[7] = Ev("task", T_cmd, <<>>)
    /\ log[8].op = "Popen"

\* the reference names no sub-directory: it has no '/', or its only '/' is its
\* first character
NoSubdirectory(r) == \A i \in DOMAIN r : r[i] = "/" => i = 1

\* C20: a nested invocation whose reference names no sub-directory runs in the
\* directory the parent run started in, and once its process has exited with
\* status zero the .git directory of the parent project is removed: it is gone
\* unless a later nested invocation has initialized it again.
C20_NestedInHostRemovesGit ==
    \A j \in DOMAIN log :
        (StartsNested(j) /\ NoSubdirectory(RefAt(j))) =>
            /\ Len(log) >= j + 2
            /\ log[j + 1] = Ev("init", getcwd, <<>>)
            /\ NestedDirAt(j) = getcwd
            /\ (Len(log) >= j + 3 /\ log[j + 3] = Ev("exit", NestedCommandAt(j), S_zero)) =>
                 /\ Len(log) >= j + 4
                 /\ log[j + 4] = Ev("rmgit", getcwd, <<>>)
                 /\ NoLaterInit(j + 1, getcwd) => getcwd \notin gitDirs

\* the dependency of reference /q ran in the parent's directory and returned;
\* the parent's .git is gone, and the vendoring pass of the first task ended the
\* run because the project is no repository any more
C20_Witness ==
    /\ profile.dependencies.items = << <<"quack", <<"/", "q">> >> >>
    /\ profile.tasks = <<T_modules>>
    /\ Len(log) >= 6
    /\ log[3].b = getcwd
    /\ log[5] = Ev("rmgit", getcwd, <<>>)
    /\ getcwd \notin gitDirs
    /\ err = "InvalidGitRepositoryError"

====
